---- MODULE Spec2Model ----
(***************************************************************************)
(* A model of the SupercellSWF (.sc) container codec: the texture record   *)
(* (src/src/lib/texture/index.ts) and the container orchestrator with its  *)
(* tag dispatcher (src/unnamed/part_000, the SupercellSWF class).          *)
(*                                                                         *)
(* Buffers are sequences of bytes with a 0-based read cursor; files are a  *)
(* function from paths to byte sequences.  parseTags runs one tag per      *)
(* step, so that its intermediate states are states of the model.          *)
(***************************************************************************)
EXTENDS Integers, Sequences, FiniteSets, TLC

VARIABLES pc, swf, loc, files, err, texture, args, orig

vars == <<pc, swf, loc, files, err, texture, args, orig>>

(***************************************************************************)
(* Bounds of the model.                                                    *)
(***************************************************************************)
\* Largest width and height of a texture image drawn as an input.
MaxDim == 2

\* Largest number of tags, before the terminator, of a crafted tag stream.
MaxTags == 3

\* Largest resource count a crafted header declares.
MaxCount == 1

\* Largest number of textures, and of transform banks, of a document to save.
MaxItems == 2

\* Largest number of resources of a document to save.
MaxResources == 3

\* Largest number of tags of a crafted file with malformed tag headers.
MaxMalformed == 2

\* Largest number of whole 32-pixel blocks along a side of a walked image.
MaxBlocks == 2

\* Largest number of tags of each file an instance loads in turn.
MaxReuse == 2

(***************************************************************************)
(* Byte buffer (ScBuffer): little-endian scalars, length-prefixed ASCII,   *)
(* tag framing.                                                            *)
(***************************************************************************)
NoError == "none"

Zeros(n) == [i \in 1..n |-> 0]

U16(n) == <<n % 256, (n \div 256) % 256>>

\* i32, two's complement, little-endian (the top byte carries the sign bit)
I32(n) ==
    LET m == IF n < 0 THEN (n + 2147483647) + 1 ELSE n
        top == (m \div 16777216) + (IF n < 0 THEN 128 ELSE 0)
    IN  <<m % 256, (m \div 256) % 256, (m \div 65536) % 256, top>>

\* whether n bytes can be read at cursor pos
CanRead(buf, pos, n) == pos >= 0 /\ n >= 0 /\ pos + n <= Len(buf)

readUInt8(buf, pos) == buf[pos + 1]

readUInt16(buf, pos) == buf[pos + 1] + 256 * buf[pos + 2]

readInt32(buf, pos) ==
    LET low == buf[pos + 1] + 256 * buf[pos + 2] + 65536 * buf[pos + 3]
        top == buf[pos + 4]
    IN  IF top >= 128 THEN ((low + 16777216 * (top - 128)) - 2147483647) - 1
        ELSE low + 16777216 * top

\* 1-byte length prefix, then the bytes; the empty string is written as 0xFF
writeASCII(s) == IF Len(s) = 0 THEN <<255>> ELSE <<Len(s)>> \o s

\* number of bytes readASCII consumes at pos
asciiSize(buf, pos) == IF readUInt8(buf, pos) = 255 THEN 1 ELSE 1 + readUInt8(buf, pos)

CanReadASCII(buf, pos) == CanRead(buf, pos, 1) /\ CanRead(buf, pos, asciiSize(buf, pos))

readASCII(buf, pos) ==
    IF readUInt8(buf, pos) = 255 THEN <<>>
    ELSE SubSeq(buf, pos + 2, pos + 1 + readUInt8(buf, pos))

\* u8 id, i32 payload length, payload
saveTag(id, payload) == <<id>> \o I32(Len(payload)) \o payload

(***************************************************************************)
(* Pixel formats (texture/index.ts).                                       *)
(***************************************************************************)
GL_LINEAR == "GL_LINEAR"
GL_NEAREST == "GL_NEAREST"
GL_LINEAR_MIPMAP_NEAREST == "GL_LINEAR_MIPMAP_NEAREST"

FILTERS == {GL_LINEAR, GL_NEAREST, GL_LINEAR_MIPMAP_NEAREST}

CHANNEL_FORMATS ==
    [RGBA  |-> <<"GL_RGBA8", "GL_RGBA4", "GL_RGB5_A1">>,
     RGB   |-> <<"GL_RGB565">>,
     GREYA |-> <<"GL_LUMINANCE8_ALPHA8">>,
     GREY  |-> <<"GL_LUMINANCE8">>]

PIXEL_CHANNELS ==
    <<"RGBA", "RGBA", "RGBA", "RGBA", "RGB", "RGBA", "GREYA", "RGBA", "RGBA", "RGBA", "GREY">>

PIXEL_FORMATS ==
    <<"GL_RGBA8", "GL_RGBA8", "GL_RGBA4", "GL_RGB5_A1", "GL_RGB565", "GL_RGBA8",
      "GL_LUMINANCE8_ALPHA8", "GL_RGBA8", "GL_RGBA8", "GL_RGBA4", "GL_LUMINANCE8">>

Undefined == "undefined"

\* Array.prototype.indexOf: 0-based index of the first occurrence, -1 if none
IndexOf(seq, x) ==
    IF \E i \in 1..Len(seq) : seq[i] = x
    THEN (CHOOSE i \in 1..Len(seq) : seq[i] = x /\ \A j \in 1..(i - 1) : seq[j] # x) - 1
    ELSE -1

Includes(seq, x) == \E i \in 1..Len(seq) : seq[i] = x

\* PIXEL_FORMATS[i] and PIXEL_CHANNELS[i] of the source: undefined outside the array
PixelFormatAt(i) == IF i \in 0..(Len(PIXEL_FORMATS) - 1) THEN PIXEL_FORMATS[i + 1] ELSE Undefined

PixelChannelsAt(i) == IF i \in 0..(Len(PIXEL_CHANNELS) - 1) THEN PIXEL_CHANNELS[i + 1] ELSE Undefined

Channels(kind) == CASE kind = "RGBA" -> 4 [] kind = "RGB" -> 3 [] kind = "GREYA" -> 2 [] OTHER -> 1

HasAlpha(kind) == kind \in {"RGBA", "GREYA"}

\* bytes one pixel occupies in a payload, by packing
BytesPerPixel(format) ==
    CASE format = "GL_RGBA8" -> 4
      [] format = "GL_LUMINANCE8" -> 1
      [] OTHER -> 2

\* round(v * k / 255)
Scale(v, k) == (2 * v * k + 255) \div 510

\* round(v * 255 / k)
Expand(v, k) == (2 * v * 255 + k) \div (2 * k)

\* PIXEL_WRITE_FUNCTIONS[format](buffer, pix): the bytes written for one pixel
writePixel(format, pix) ==
    CASE format = "GL_RGBA8" -> <<pix[1], pix[2], pix[3], pix[4]>>
      [] format = "GL_RGBA4" ->
            U16(Scale(pix[1], 15) * 4096 + Scale(pix[2], 15) * 256
                + Scale(pix[3], 15) * 16 + Scale(pix[4], 15))
      [] format = "GL_RGB5_A1" ->
            U16(Scale(pix[1], 31) * 2048 + Scale(pix[2], 31) * 64
                + Scale(pix[3], 31) * 2 + Scale(pix[4], 1))
      [] format = "GL_RGB565" ->
            U16(Scale(pix[1], 31) * 2048 + Scale(pix[2], 63) * 32 + Scale(pix[3], 31))
      [] format = "GL_LUMINANCE8_ALPHA8" -> <<pix[1], pix[2]>>
      [] OTHER -> <<pix[1]>>

\* PIXEL_READ_FUNCTIONS[format](buffer): the pixel read at pos
readPixel(format, buf, pos) ==
    LET v == readUInt16(buf, pos)
    IN  CASE format = "GL_RGBA8" ->
                <<buf[pos + 1], buf[pos + 2], buf[pos + 3], buf[pos + 4]>>
          [] format = "GL_RGBA4" ->
                <<Expand((v \div 4096) % 16, 15), Expand((v \div 256) % 16, 15),
                  Expand((v \div 16) % 16, 15), Expand(v % 16, 15)>>
          [] format = "GL_RGB5_A1" ->
                <<Expand((v \div 2048) % 32, 31), Expand((v \div 64) % 32, 31),
                  Expand((v \div 2) % 32, 31), Expand(v % 2, 1)>>
          [] format = "GL_RGB565" ->
                <<Expand((v \div 2048) % 32, 31), Expand((v \div 32) % 64, 63),
                  Expand(v % 32, 31)>>
          [] format = "GL_LUMINANCE8_ALPHA8" -> <<buf[pos + 1], buf[pos + 2]>>
          [] OTHER -> <<buf[pos + 1]>>

(***************************************************************************)
(* Pixel buffer (image-js Image): width, height, channel kind and the      *)
(* pixels in row-major order, each pixel a sequence of channel values.     *)
(***************************************************************************)
NewImage(w, h, kind) ==
    [width |-> w, height |-> h, kind |-> kind,
     data |-> [i \in 1..(w * h) |-> Zeros(Channels(kind))]]

getPixelXY(img, x, y) == img.data[y * img.width + x + 1]

\* image.resize({factor}): factor 1 keeps the image, factor 0.5 halves both sides
\* (rounded), sampling the nearest source pixel
Resize(img, isLowres) ==
    IF ~isLowres THEN img
    ELSE LET w == (img.width + 1) \div 2
             h == (img.height + 1) \div 2
         IN  [width |-> w, height |-> h, kind |-> img.kind,
              data |-> [i \in 1..(w * h) |->
                          getPixelXY(img, 2 * ((i - 1) % w), 2 * ((i - 1) \div w))]]

blockSize == 32

\* Texture.load, the `y` and `x` loops of block (xBlock, yBlock): the (xPixel, yPixel)
\* passed to setPixelXY, in order; the two `break`s cut the block at the image's bottom
\* and right edges
LoadBlock(w, h, xBlock, yBlock) ==
    LET y0 == yBlock * blockSize
        x0 == xBlock * blockSize
        yEnd == IF h < y0 + blockSize THEN h ELSE y0 + blockSize
        xEnd == IF w < x0 + blockSize THEN w ELSE x0 + blockSize
        rows == IF yEnd > y0 THEN yEnd - y0 ELSE 0
        n == IF xEnd > x0 THEN xEnd - x0 ELSE 0
    IN  [i \in 1..(rows * n) |-> <<x0 + ((i - 1) % n), y0 + ((i - 1) \div n)>>]

\* consecutive runs of pixels, one after the other
RECURSIVE Runs(_)
Runs(blocks) == IF blocks = <<>> THEN <<>> ELSE Head(blocks) \o Runs(Tail(blocks))

\* Texture.load, the `yBlock` and `xBlock` loops: blocks 0..yBlocks by 0..xBlocks, row
\* of blocks by row of blocks
BlockWalk(w, h) ==
    LET xBlocks == w \div blockSize
        yBlocks == h \div blockSize
    IN  Runs([b \in 1..((yBlocks + 1) * (xBlocks + 1)) |->
                LoadBlock(w, h, (b - 1) % (xBlocks + 1), (b - 1) \div (xBlocks + 1))])

\* a save that writes the rows as they are
SaveRowMajor(w, h) == [i \in 1..(w * h) |-> <<(i - 1) % w, (i - 1) \div w>>]

\* Texture.save, the `y` and `x` loops of block (xBlock, yBlock): the (xPixel, yPixel)
\* passed to addPixel, in order
SaveBlock(w, h, xBlock, yBlock) ==
    LET y0 == yBlock * blockSize
        x0 == xBlock * blockSize
        yEnd == IF h < y0 + blockSize THEN h ELSE y0 + blockSize
        xEnd == IF w < x0 + blockSize THEN w ELSE x0 + blockSize
        rows == IF yEnd > y0 THEN yEnd - y0 ELSE 0
        n == IF xEnd > x0 THEN xEnd - x0 ELSE 0
    IN  [i \in 1..(rows * n) |-> <<x0 + ((i - 1) % n), y0 + ((i - 1) \div n)>>]

\* Texture.save, the `yBlock` and `xBlock` loops
SaveBlockWalk(w, h) ==
    LET xBlocks == w \div blockSize
        yBlocks == h \div blockSize
    IN  Runs([b \in 1..((yBlocks + 1) * (xBlocks + 1)) |->
                SaveBlock(w, h, (b - 1) % (xBlocks + 1), (b - 1) \div (xBlocks + 1))])

\* The row-major walk of the linear layout.
LinearWalk(w, h) == [i \in 1..(w * h) |-> <<(i - 1) % w, (i - 1) \div w>>]

(***************************************************************************)
(* Texture record.                                                         *)
(***************************************************************************)
\* new Texture(): the field initialisers; new Image() is a 1x1 RGBA image
NewTexture ==
    [pixelFormat |-> "GL_RGBA8", magFilter |-> GL_LINEAR, minFilter |-> GL_NEAREST,
     linear |-> TRUE, downscaling |-> TRUE, image |-> NewImage(1, 1, "RGBA")]

TextureTags == {1, 16, 19, 24, 27, 28, 29, 34}

\* Texture.save, the tag id: 1 unless the tag carries pixel data
SaveTagId(t, hasData) ==
    IF ~hasData THEN 1
    ELSE IF t.magFilter = GL_LINEAR /\ t.minFilter = GL_NEAREST
         THEN (IF ~t.linear THEN (IF t.downscaling THEN 28 ELSE 27)
               ELSE IF ~t.downscaling THEN 24 ELSE 1)
    ELSE IF t.magFilter = GL_LINEAR /\ t.minFilter = GL_LINEAR_MIPMAP_NEAREST
         THEN (IF ~t.linear /\ ~t.downscaling THEN 29
               ELSE IF t.downscaling THEN 16 ELSE 19)
    ELSE IF t.magFilter = GL_NEAREST /\ t.minFilter = GL_NEAREST THEN 34
    ELSE 1

\* Texture.save, the format rewrite: a pixelFormat that does not belong to the image's
\* channel kind becomes the kind's first format
SaveFormat(t) ==
    LET pixelTypeIndex == IndexOf(PIXEL_FORMATS, t.pixelFormat)
    IN  IF ~Includes(CHANNEL_FORMATS[t.image.kind], PixelFormatAt(pixelTypeIndex))
        THEN CHANNEL_FORMATS[t.image.kind][1]
        ELSE t.pixelFormat

\* Texture.save, the non-linear loops: `image` overwritten in row-major positions by
\* the pixels met on `walk`
WalkPixels(image, walk) ==
    [image EXCEPT !.data =
        [k \in 1..(image.width * image.height) |->
            IF k <= Len(walk) THEN getPixelXY(image, walk[k][1], walk[k][2])
            ELSE image.data[k]]]

\* Texture.save, the pixels of `image` in payload order: the image itself when linear,
\* else its pixels in the order of the block walk
PayloadOrder(image, linear) ==
    IF linear THEN image
    ELSE WalkPixels(image, SaveBlockWalk(image.width, image.height))

\* Texture.save, the image whose pixels are written: resized when isLowres, then put
\* in payload order
SaveImage(t, isLowres) == PayloadOrder(Resize(t.image, isLowres), t.linear)

\* Texture.save, addPixel: every pixel of `image` packed by `format`; a pixel whose
\* alpha is zero is written as all zeros
PackPixels(image, format, bpp) ==
    LET pixAt(k) == LET pix == image.data[k]
                    IN  IF HasAlpha(image.kind) /\ pix[Len(pix)] = 0
                        THEN Zeros(Channels(image.kind)) ELSE pix
    IN  [i \in 1..(image.width * image.height * bpp) |->
            writePixel(format, pixAt(((i - 1) \div bpp) + 1))[((i - 1) % bpp) + 1]]

\* Texture.save, the pixel payload: every pixel of SaveImage packed by the (rewritten)
\* format
SavePayload(t, isLowres) ==
    PackPixels(SaveImage(t, isLowres), SaveFormat(t), BytesPerPixel(SaveFormat(t)))

\* Texture.save(swf, hasData, isLowres): the texture afterwards and the tag appended
\* to swf.buffer
TextureSave(t, hasData, isLowres) ==
    LET pixelTypeIndex == IndexOf(PIXEL_FORMATS, t.pixelFormat)
        image == Resize(t.image, isLowres)
        header == <<pixelTypeIndex % 256>> \o U16(image.width) \o U16(image.height)
        tagBuffer == IF hasData THEN header \o SavePayload(t, isLowres) ELSE header
    IN  [texture |-> [t EXCEPT !.pixelFormat = SaveFormat(t)],
         bytes |-> saveTag(SaveTagId(t, hasData), tagBuffer)]

\* Texture.load, the filters and layout flags a tag id stands for
LoadFlags(tag) ==
    [magFilter |-> GL_LINEAR,
     minFilter |-> IF tag \in {16, 19, 29} THEN GL_LINEAR_MIPMAP_NEAREST
                   ELSE IF tag = 34 THEN GL_LINEAR
                   ELSE GL_NEAREST,
     linear |-> tag \notin {27, 28, 29},
     downscaling |-> tag \in {1, 16, 28, 29}]

\* Texture.load, the pixels read at cursor `at`: the k-th pixel of the payload lands on
\* the k-th (x, y) of the walk
LoadPixels(buf, at, format, walk, w, h, kind) ==
    LET bpp == BytesPerPixel(format)
        hits(i) == {k \in 1..Len(walk) : walk[k][2] * w + walk[k][1] + 1 = i}
        last(S) == CHOOSE k \in S : \A j \in S : j <= k
    IN  [i \in 1..(w * h) |->
            IF hits(i) = {} THEN Zeros(Channels(kind))
            ELSE readPixel(format, buf, at + (last(hits(i)) - 1) * bpp)]

\* a load that never appends the texture
PushesNever(slot, hasData) == FALSE

\* Texture.load, `if (swf.textures.indexOf(this) < 0) swf.textures.push(this)`, inside
\* `if (hasData)`: a texture that is in no slot is appended
PushesTexture(slot, hasData) == hasData /\ slot = 0

\* Texture.load(tag, swf, hasData) on the texture in slot `slot` of swf.textures
\* (slot 0: a texture that is not in swf.textures): the texture and the instance
\* afterwards, or the error thrown
TextureLoad(t, slot, tag, s, hasData) ==
    LET buf == s.buffer
        pixelTypeIndex == readUInt8(buf, s.pos)
        width == readUInt16(buf, s.pos + 1)
        height == readUInt16(buf, s.pos + 3)
        format == PixelFormatAt(pixelTypeIndex)
        channelsMode == PixelChannelsAt(pixelTypeIndex)
        kind == IF channelsMode = Undefined THEN "RGBA" ELSE channelsMode
        flags == LoadFlags(tag)
        walk == IF flags.linear THEN LinearWalk(width, height)
                ELSE BlockWalk(width, height)
        size == Len(walk) * BytesPerPixel(format)
        at == s.pos + 5
        loaded(data) ==
            [pixelFormat |-> format, magFilter |-> flags.magFilter,
             minFilter |-> flags.minFilter, linear |-> flags.linear,
             downscaling |-> flags.downscaling,
             image |-> [width |-> width, height |-> height, kind |-> kind, data |-> data]]
        place(tx, ts) == IF PushesTexture(slot, hasData) THEN Append(ts, tx)
                         ELSE IF slot = 0 THEN ts ELSE [ts EXCEPT ![slot] = tx]
        blank == loaded(NewImage(width, height, kind).data)
    IN  IF ~CanRead(buf, s.pos, 5)
        THEN [texture |-> t, swf |-> s, err |-> "Truncated"]
        ELSE IF ~hasData
        THEN [texture |-> blank,
              swf |-> [s EXCEPT !.pos = at, !.textures = place(blank, @)],
              err |-> NoError]
        ELSE IF format = Undefined /\ Len(walk) > 0
        THEN [texture |-> blank,
              swf |-> [s EXCEPT !.pos = at,
                         !.textures = place(blank, @)],
              err |-> "TypeError"]
        ELSE IF ~CanRead(buf, at, size)
        THEN [texture |-> blank,
              swf |-> [s EXCEPT !.pos = at,
                         !.textures = place(blank, @)],
              err |-> "Truncated"]
        ELSE LET full == loaded(LoadPixels(buf, at, format, walk, width, height, kind))
             IN  [texture |-> full,
                  swf |-> [s EXCEPT !.pos = at + size,
                             !.textures = place(full, @)],
                  err |-> NoError]

(***************************************************************************)
(* SupercellSWF instance.                                                  *)
(***************************************************************************)
\* '_highres' and '_lowres' as ASCII codes
DefaultHighres == <<95, 104, 105, 103, 104, 114, 101, 115>>

DefaultLowres == <<95, 108, 111, 119, 114, 101, 115>>

\* new SupercellSWF(): the field initialisers
NewSwf ==
    [compression |-> "NONE", hasExternalTexture |-> FALSE, useUncommonTexture |-> FALSE,
     useLowresTexture |-> FALSE, exports |-> <<>>, textures |-> <<>>,
     highresPostfix |-> DefaultHighres, lowresPostfix |-> DefaultLowres,
     banks |-> <<>>, resources |-> <<>>, buffer |-> <<>>, pos |-> 0,
     _shapeCount |-> 0, _movieClipsCount |-> 0, _textFieldsCount |-> 0,
     _modifiersCount |-> 0]

\* values of the variables an operation does not use
\* parseTags, its locals at entry; resourcesCount is the denominator of the progress
\* percentage.  The last fields are history: tag and tagLength the tag header last
\* read, report the <<count, total>> of the last resources_load report, withData the
\* number of texture tags read with pixel payload, maxModifiers the largest value
\* _modifiersCount has had during the parse, seen the tag ids read so far in this
\* parse; ret is the caller to return to.
NewLoc(s, ret) ==
    [read |-> TRUE, hasTextureData |-> TRUE, shapesLoaded |-> 0, movieclipsLoaded |-> 0,
     textfieldsLoaded |-> 0, modifiersLoaded |-> 0, banksLoaded |-> 0,
     matricesLoaded |-> 0, colorsLoaded |-> 0, texturesLoaded |-> 0,
     resourcesCount |-> s._shapeCount + s._movieClipsCount + s._textFieldsCount
                        + s._modifiersCount,
     tag |-> -1, tagLength |-> 0, report |-> <<>>, withData |-> 0,
     maxModifiers |-> s._modifiersCount, seen |-> {}, ret |-> ret]

NoLoc == [NewLoc(NewSwf, "none") EXCEPT !.read = FALSE]

NoArgs == [op |-> "none"]

NoFiles == [p \in {} |-> <<>>]

(***************************************************************************)
(* Texture specification: one Texture.save or Texture.load on a texture    *)
(* drawn from TextureInputs, and the load of a tag just saved.             *)
(***************************************************************************)
\* pixel k of an input image: every channel 17 * k, a value all packings keep
InputPixel(kind, k) == [c \in 1..Channels(kind) |-> 17 * (k % 16)]

InputImage(w, h, kind) ==
    [width |-> w, height |-> h, kind |-> kind,
     data |-> [k \in 1..(w * h) |-> InputPixel(kind, k)]]

InputFormats == {"GL_RGBA8", "GL_RGBA4", "GL_LUMINANCE8"}

InputKinds == {"RGBA", "GREY"}

\* pixel-format indices of crafted tags
InputIndices == {0, 2, 10, 11, 255}

TextureInputs ==
    {[pixelFormat |-> f, magFilter |-> mag, minFilter |-> min, linear |-> l,
      downscaling |-> d, image |-> InputImage(w, h, k)] :
        f \in InputFormats, mag \in FILTERS, min \in FILTERS, l \in BOOLEAN,
        d \in BOOLEAN, w \in 1..MaxDim, h \in 1..MaxDim, k \in InputKinds}

InitTexture ==
    /\ pc = "tex"
    /\ texture \in TextureInputs
    /\ orig = texture
    /\ swf = NewSwf
    /\ loc = NoLoc
    /\ files = NoFiles
    /\ err = NoError
    /\ args = NoArgs

\* texture.save(swf, hasData, isLowres)
TexSave ==
    /\ pc = "tex"
    /\ \E hasData \in BOOLEAN, isLowres \in BOOLEAN :
          LET r == TextureSave(texture, hasData, isLowres)
          IN  /\ texture' = r.texture
              /\ swf' = [swf EXCEPT !.buffer = @ \o r.bytes]
              /\ args' = [op |-> "save", hasData |-> hasData, isLowres |-> isLowres,
                          tag |-> readUInt8(r.bytes, 0), tagLength |-> readInt32(r.bytes, 1)]
    /\ pc' = "tex_saved"
    /\ UNCHANGED <<loc, files, err, orig>>

\* the tag just saved is read back: the tag header as parseTags reads it, then
\* new Texture().load(tag, swf, hasData)
TexLoadSaved ==
    /\ pc = "tex_saved"
    /\ LET tag == readUInt8(swf.buffer, swf.pos)
           r == TextureLoad(NewTexture, 0, tag, [swf EXCEPT !.pos = swf.pos + 5], args.hasData)
       IN  /\ texture' = r.texture
           /\ swf' = r.swf
           /\ err' = r.err
           /\ args' = [args EXCEPT !.op = "reload"]
    /\ pc' = "tex_loaded"
    /\ UNCHANGED <<loc, files, orig>>

\* texture.load(tag, swf, hasData) on a crafted tag of the texture's size
TexLoad ==
    /\ pc = "tex"
    /\ \E tag \in TextureTags, index \in InputIndices, hasData \in BOOLEAN :
          LET w == texture.image.width
              h == texture.image.height
              payload == <<index>> \o U16(w) \o U16(h)
                         \o (IF hasData THEN Zeros(w * h * BytesPerPixel(PixelFormatAt(index)))
                             ELSE <<>>)
              r == TextureLoad(texture, 0, tag, [swf EXCEPT !.buffer = payload], hasData)
          IN  /\ texture' = r.texture
              /\ swf' = r.swf
              /\ err' = r.err
              /\ args' = [op |-> "load", hasData |-> hasData, isLowres |-> FALSE,
                          tag |-> tag, tagLength |-> Len(payload)]
    /\ pc' = "tex_loaded"
    /\ UNCHANGED <<loc, files, orig>>

NextTexture == TexSave \/ TexLoadSaved \/ TexLoad

SpecTexture == InitTexture /\ [][NextTexture]_vars

(***************************************************************************)
(* The tag table of the texture record: tag id -> (mag filter, min filter, *)
(* linear, downscaling); row 34 stands for any linear / downscaling.       *)
(***************************************************************************)
TagRowMatches(id, mag, min, l, d) ==
    CASE id = 1  -> mag = GL_LINEAR /\ min = GL_NEAREST /\ l /\ d
      [] id = 16 -> mag = GL_LINEAR /\ min = GL_LINEAR_MIPMAP_NEAREST /\ l /\ d
      [] id = 19 -> mag = GL_LINEAR /\ min = GL_LINEAR_MIPMAP_NEAREST /\ l /\ ~d
      [] id = 24 -> mag = GL_LINEAR /\ min = GL_NEAREST /\ l /\ ~d
      [] id = 27 -> mag = GL_LINEAR /\ min = GL_NEAREST /\ ~l /\ ~d
      [] id = 28 -> mag = GL_LINEAR /\ min = GL_NEAREST /\ ~l /\ d
      [] id = 29 -> mag = GL_LINEAR /\ min = GL_LINEAR_MIPMAP_NEAREST /\ ~l /\ d
      [] id = 34 -> mag = GL_NEAREST /\ min = GL_NEAREST
      [] OTHER -> FALSE

\* the smallest id whose row matches, 1 when none does
TableTag(mag, min, l, d) ==
    LET rows == {id \in TextureTags : TagRowMatches(id, mag, min, l, d)}
    IN  IF rows = {} THEN 1 ELSE CHOOSE id \in rows : \A other \in rows : id <= other

\* C1: every texture tag Texture.save emits, with or without pixel payload, carries
\* the smallest tag id whose table row matches the texture's (magFilter, minFilter,
\* linear, downscaling), and 1 when no row matches.
C1_SaveTagFollowsTable ==
    pc = "tex_saved" =>
        args.tag = TableTag(orig.magFilter, orig.minFilter, orig.linear, orig.downscaling)

\* C2: Texture.load sets (magFilter, minFilter, linear, downscaling) from the tag id as
\* the tag table states; tag 34 gives magFilter NEAREST and minFilter NEAREST.
C2_LoadFlagsFollowTable ==
    (pc = "tex_loaded" /\ args.op = "load" /\ err = NoError) =>
        TagRowMatches(args.tag, texture.magFilter, texture.minFilter,
                      texture.linear, texture.downscaling)

(***************************************************************************)
(* Tag dispatcher: SupercellSWF.parseTags, one iteration of its loop.      *)
(***************************************************************************)
ShapeTags == {2, 18}

MovieClipTags == {3, 10, 12, 14, 35}

TextFieldTags == {7, 15, 20, 21, 25, 33, 43, 44}

MatrixTags == {8, 36}

ColorTags == {9}

ModifierTags == {38, 39, 40}

KnownTags ==
    {0, 23, 26, 30, 32, 37, 42} \cup TextureTags \cup ShapeTags \cup MovieClipTags
    \cup TextFieldTags \cup MatrixTags \cup ColorTags \cup ModifierTags

\* ScBuffer.skip(n)
skip(s, n) == [s EXCEPT !.pos = @ + n]

\* load of a record whose layout is outside this model (Shape, MovieClip, TextField,
\* MovieClipModifier): the payload is a byte run of the declared length
RecordLoad(s, tagLength) ==
    IF CanRead(s.buffer, s.pos, tagLength)
    THEN [swf |-> skip(s, tagLength), err |-> NoError]
    ELSE [swf |-> s, err |-> "Truncated"]

\* TransformBank.load(swf): u16 matrix count, u16 color count, and in the tag form the
\* bank name; appends a bank with that many blank entries to swf.banks
BankLoad(s, tagForm) ==
    LET buf == s.buffer
        matrixCount == readUInt16(buf, s.pos)
        colorCount == readUInt16(buf, s.pos + 2)
        named == tagForm
        size == IF named THEN 4 + asciiSize(buf, s.pos + 4) ELSE 4
        bank == [name |-> IF named THEN readASCII(buf, s.pos + 4) ELSE <<>>,
                 matrices |-> Zeros(matrixCount), colors |-> Zeros(colorCount)]
    IN  IF ~CanRead(buf, s.pos, 4) \/ (named /\ ~CanReadASCII(buf, s.pos + 4))
        THEN [swf |-> s, err |-> "Truncated"]
        ELSE [swf |-> [s EXCEPT !.pos = @ + size, !.banks = Append(@, bank)],
              err |-> NoError]

\* Matrix.load / ColorTransform.load into an entry of a bank: the entry keeps the
\* payload byte run
EntryLoad(s, tagLength) ==
    IF CanRead(s.buffer, s.pos, tagLength)
    THEN [value |-> SubSeq(s.buffer, s.pos + 1, s.pos + tagLength),
          swf |-> skip(s, tagLength), err |-> NoError]
    ELSE [value |-> <<>>, swf |-> s, err |-> "Truncated"]

Loaded(l) == l.shapesLoaded + l.movieclipsLoaded + l.textfieldsLoaded + l.modifiersLoaded

\* this.progress(STATES.resources_load, getPercent()): the count and total reported
Report(l) == [l EXCEPT !.report = <<Loaded(l), l.resourcesCount>>]

Result(s, l, e) == [swf |-> s, loc |-> l, err |-> e]

\* a limit that lets one record more than declared through
TooManyOffByOne(loaded, declared) == loaded > declared

\* no limit at all
TooManyNever(loaded, declared) == FALSE

\* `if (shapesLoaded >= this._shapeCount) throw`, and the same test of the other kinds
TooMany(loaded, declared) == loaded >= declared

\* a tag 26 after which texture payloads are still read
ExternalTextureKeepsData(s1, l1) ==
    Result([s1 EXCEPT !.hasExternalTexture = TRUE], l1, NoError)

\* case 26: `this.hasExternalTexture = true; hasTextureData = false`
ExternalTextureStep(s1, l1) ==
    Result([s1 EXCEPT !.hasExternalTexture = TRUE],
           [l1 EXCEPT !.hasTextureData = FALSE], NoError)

\* an unknown tag whose payload is left in front of the cursor
UnknownTagKept(s1, l1, tagLength) == Result(s1, l1, NoError)

\* the `default` case: the tag is logged and its payload skipped
UnknownTagStep(s1, l1, tagLength) == Result(skip(s1, tagLength), l1, NoError)

\* One iteration of the `while (read)` loop of parseTags on instance s with locals l.
ParseStep(s, l) ==
    IF ~CanRead(s.buffer, s.pos, 5) THEN Result(s, l, "Truncated")
    ELSE
    LET tag == readUInt8(s.buffer, s.pos)
        tagLength == readInt32(s.buffer, s.pos + 1)
        s1 == [s EXCEPT !.pos = @ + 5]
        l1 == [l EXCEPT !.tag = tag, !.tagLength = tagLength, !.seen = @ \cup {tag}]
    IN  CASE tag = 0 -> Result(s1, [l1 EXCEPT !.read = FALSE], NoError)
          [] tag \in TextureTags ->
                LET slot == IF l.texturesLoaded < Len(s.textures)
                            THEN l.texturesLoaded + 1 ELSE 0
                    this == IF slot = 0 THEN NewTexture ELSE s.textures[slot]
                    r == TextureLoad(this, slot, tag, s1, l.hasTextureData)
                IN  IF r.err # NoError THEN Result(r.swf, l1, r.err)
                    ELSE Result(r.swf,
                                [l1 EXCEPT !.texturesLoaded = @ + 1,
                                           !.withData = IF l.hasTextureData THEN @ + 1 ELSE @],
                                NoError)
          [] tag = 23 -> Result([s1 EXCEPT !.useLowresTexture = TRUE], l1, NoError)
          [] tag = 26 -> ExternalTextureStep(s1, l1)
          [] tag = 30 -> Result([s1 EXCEPT !.useUncommonTexture = TRUE], l1, NoError)
          [] tag = 32 ->
                IF ~CanReadASCII(s1.buffer, s1.pos) THEN Result(s1, l1, "Truncated")
                ELSE LET highresPostfix == readASCII(s1.buffer, s1.pos)
                         s2 == skip(s1, asciiSize(s1.buffer, s1.pos))
                     IN  IF ~CanReadASCII(s2.buffer, s2.pos) THEN Result(s2, l1, "Truncated")
                         ELSE LET lowresPostfix == readASCII(s2.buffer, s2.pos)
                                  s3 == skip(s2, asciiSize(s2.buffer, s2.pos))
                              IN  IF highresPostfix # <<>> /\ lowresPostfix # <<>>
                                  THEN Result([s3 EXCEPT !.highresPostfix = highresPostfix,
                                                         !.lowresPostfix = lowresPostfix],
                                              l1, NoError)
                                  ELSE Result(s3, l1, NoError)
          [] tag \in ShapeTags ->
                IF TooMany(l.shapesLoaded, s._shapeCount)
                THEN Result(s1, l1, "INVALID_SHAPE_COUNT")
                ELSE LET r == RecordLoad(s1, tagLength)
                     IN  IF r.err # NoError THEN Result(r.swf, l1, r.err)
                         ELSE Result(r.swf, Report([l1 EXCEPT !.shapesLoaded = @ + 1]), NoError)
          [] tag \in MovieClipTags ->
                IF TooMany(l.movieclipsLoaded, s._movieClipsCount)
                THEN Result(s1, l1, "Trying to load too many MovieClips")
                ELSE LET r == RecordLoad(s1, tagLength)
                     IN  IF r.err # NoError THEN Result(r.swf, l1, r.err)
                         ELSE Result(r.swf, Report([l1 EXCEPT !.movieclipsLoaded = @ + 1]),
                                     NoError)
          [] tag \in TextFieldTags ->
                IF TooMany(l.textfieldsLoaded, s._textFieldsCount)
                THEN Result(s1, l1, "INVALID_TEXTFIELD_COUNT")
                ELSE LET r == RecordLoad(s1, tagLength)
                     IN  IF r.err # NoError THEN Result(r.swf, l1, r.err)
                         ELSE Result(r.swf, Report([l1 EXCEPT !.textfieldsLoaded = @ + 1]),
                                     NoError)
          [] tag \in MatrixTags ->
                IF l.banksLoaded >= Len(s.banks) THEN Result(s1, l1, "TypeError")
                ELSE IF l.matricesLoaded >= Len(s.banks[l.banksLoaded + 1].matrices)
                THEN Result(s1, l1, "TypeError")
                ELSE LET r == EntryLoad(s1, tagLength)
                     IN  IF r.err # NoError THEN Result(r.swf, l1, r.err)
                         ELSE Result([r.swf EXCEPT
                                        !.banks[l.banksLoaded + 1].matrices[l.matricesLoaded + 1]
                                            = r.value],
                                     [l1 EXCEPT !.matricesLoaded = @ + 1], NoError)
          [] tag \in ColorTags ->
                IF l.banksLoaded >= Len(s.banks) THEN Result(s1, l1, "TypeError")
                ELSE IF l.colorsLoaded >= Len(s.banks[l.banksLoaded + 1].colors)
                THEN Result(s1, l1, "TypeError")
                ELSE LET r == EntryLoad(s1, tagLength)
                     IN  IF r.err # NoError THEN Result(r.swf, l1, r.err)
                         ELSE Result([r.swf EXCEPT
                                        !.banks[l.banksLoaded + 1].colors[l.colorsLoaded + 1]
                                            = r.value],
                                     [l1 EXCEPT !.colorsLoaded = @ + 1], NoError)
          [] tag = 37 ->
                IF ~CanRead(s1.buffer, s1.pos, 2) THEN Result(s1, l1, "Truncated")
                ELSE LET count == readUInt16(s1.buffer, s1.pos)
                     IN  Result([skip(s1, 2) EXCEPT !._modifiersCount = count],
                                [l1 EXCEPT !.maxModifiers = IF count > @ THEN count ELSE @],
                                NoError)
          [] tag \in ModifierTags ->
                IF TooMany(l.modifiersLoaded, s._modifiersCount)
                THEN Result(s1, l1, "Trying to load too many Modifiers")
                ELSE LET r == RecordLoad(s1, tagLength)
                     IN  IF r.err # NoError THEN Result(r.swf, l1, r.err)
                         ELSE Result(r.swf, Report([l1 EXCEPT !.modifiersLoaded = @ + 1]),
                                     NoError)
          [] tag = 42 ->
                LET r == BankLoad(s1, TRUE)
                IN  IF r.err # NoError THEN Result(r.swf, l1, r.err)
                    ELSE Result(r.swf,
                                [l1 EXCEPT !.matricesLoaded = 0, !.colorsLoaded = 0,
                                           !.banksLoaded = @ + 1],
                                NoError)
          [] OTHER -> UnknownTagStep(s1, l1, tagLength)

(***************************************************************************)
(* Container orchestrator: files, paths, header, load.                     *)
(***************************************************************************)
\* path.split('.').slice(0, -1).join('.') of the path 'a.sc'
BasePath == <<97>>

\* 'a.sc'
MainPath == BasePath \o <<46, 115, 99>>

\* '_tex.sc'
TexSuffix == <<95, 116, 101, 120, 46, 115, 99>>

\* <base> + postfix + '_tex.sc'
TexPath(postfix) == BasePath \o postfix \o TexSuffix

existsSync(fs, path) == path \in DOMAIN fs

\* ScBuffer.toCompressed / ScBuffer.fromCompressed: a file keeps the method and the
\* plain bytes the lossless envelope wraps
toCompressed(buf, method) == [method |-> method, data |-> buf]

fromCompressed(file) == [method |-> file.method, buffer |-> file.data]

\* The header: four u16 counts, the primary bank's two counts, 5 reserved bytes and an
\* exports table (here of `exports`, a sequence of <<id, name>>).
RECURSIVE JoinASCII(_)
JoinASCII(names) ==
    IF names = <<>> THEN <<>> ELSE writeASCII(Head(names)) \o JoinASCII(Tail(names))

RECURSIVE JoinU16(_)
JoinU16(ns) == IF ns = <<>> THEN <<>> ELSE U16(Head(ns)) \o JoinU16(Tail(ns))

ExportsSave(exports) ==
    U16(Len(exports)) \o JoinU16([i \in 1..Len(exports) |-> exports[i][1]])
    \o JoinASCII([i \in 1..Len(exports) |-> exports[i][2]])

HeaderBytes(shapes, movieClips, textures, textFields, matrices, colors, exports) ==
    U16(shapes) \o U16(movieClips) \o U16(textures) \o U16(textFields)
    \o U16(matrices) \o U16(colors) \o Zeros(5) \o ExportsSave(exports)

\* Exports.load: u16 count, count u16 ids, count ASCII names
RECURSIVE ReadNames(_, _, _)
ReadNames(buf, pos, n) ==
    IF n = 0 THEN [names |-> <<>>, pos |-> pos, ok |-> TRUE]
    ELSE IF ~CanReadASCII(buf, pos) THEN [names |-> <<>>, pos |-> pos, ok |-> FALSE]
    ELSE LET rest == ReadNames(buf, pos + asciiSize(buf, pos), n - 1)
         IN  [names |-> <<readASCII(buf, pos)>> \o rest.names, pos |-> rest.pos,
              ok |-> rest.ok]

ExportsLoad(s) ==
    IF ~CanRead(s.buffer, s.pos, 2) THEN [swf |-> s, err |-> "Truncated"]
    ELSE LET count == readUInt16(s.buffer, s.pos)
             names == ReadNames(s.buffer, s.pos + 2 + 2 * count, count)
         IN  IF ~CanRead(s.buffer, s.pos + 2, 2 * count) \/ ~names.ok
             THEN [swf |-> s, err |-> "Truncated"]
             ELSE [swf |-> [s EXCEPT !.pos = names.pos,
                              !.exports = [i \in 1..count |->
                                  <<readUInt16(s.buffer, s.pos + 2 * i), names.names[i]>>]],
                   err |-> NoError]

\* loadAsset up to the call of parseTags: the buffer, the compression method and the
\* header fields
LoadAssetHeader(s, file) ==
    LET d == fromCompressed(file)
        s0 == [s EXCEPT !.buffer = d.buffer, !.pos = 0, !.compression = d.method]
    IN  IF ~CanRead(s0.buffer, 0, 8) THEN [swf |-> s0, err |-> "Truncated"]
        ELSE LET s1 == [s0 EXCEPT
                          !._shapeCount = readUInt16(s0.buffer, 0),
                          !._movieClipsCount = readUInt16(s0.buffer, 2),
                          !.textures = [i \in 1..readUInt16(s0.buffer, 4) |-> NewTexture],
                          !._textFieldsCount = readUInt16(s0.buffer, 6),
                          !.pos = 8]
                 b == BankLoad(s1, FALSE)
             IN  IF b.err # NoError THEN b
                 ELSE IF ~CanRead(b.swf.buffer, b.swf.pos, 5)
                 THEN [swf |-> b.swf, err |-> "Truncated"]
                 ELSE ExportsLoad(skip(b.swf, 5))

\* load(path), the companion file chosen once the main file is parsed; <<>> stands for
\* `undefined` (no candidate exists)
NoPath == <<>>

\* a lookup that prefers the lowres companion
TexturePathLowresFirst(s, fs) ==
    IF s.useUncommonTexture
    THEN (IF existsSync(fs, TexPath(s.lowresPostfix)) THEN TexPath(s.lowresPostfix)
          ELSE IF existsSync(fs, TexPath(s.highresPostfix)) THEN TexPath(s.highresPostfix)
          ELSE NoPath)
    ELSE IF existsSync(fs, TexPath(<<>>)) THEN TexPath(<<>>)
    ELSE NoPath

TexturePath(s, fs) ==
    LET commonPath == TexPath(<<>>)
        lowresPath == TexPath(s.lowresPostfix)
        highresPath == TexPath(s.highresPostfix)
    IN  IF s.useUncommonTexture
        THEN (IF existsSync(fs, highresPath) THEN highresPath
              ELSE IF existsSync(fs, lowresPath) THEN lowresPath
              ELSE NoPath)
        ELSE IF existsSync(fs, commonPath) THEN commonPath
        ELSE NoPath

(***************************************************************************)
(* Actions of the load side.                                               *)
(***************************************************************************)
\* loadAsset(path) up to its call of parseTags
LoadAsset ==
    /\ pc = "loadAsset"
    /\ LET r == LoadAssetHeader(swf, files[args.path])
       IN  /\ swf' = r.swf
           /\ err' = r.err
           /\ loc' = IF r.err = NoError THEN NewLoc(r.swf, "loadAsset") ELSE loc
           /\ pc' = IF r.err = NoError THEN "parseTags" ELSE "failed"
    /\ UNCHANGED <<files, texture, args, orig>>

\* one tag of parseTags; on tag 0 control returns to the caller: loadAsset returns (to
\* load, if load called it), loadExternalTexture clears the buffer and returns
ParseTag ==
    /\ pc = "parseTags"
    /\ LET r == ParseStep(swf, loc)
       IN  /\ err' = r.err
           /\ loc' = r.loc
           /\ swf' = IF r.err = NoError /\ ~r.loc.read /\ loc.ret = "loadExternalTexture"
                     THEN [r.swf EXCEPT !.buffer = <<>>, !.pos = 0]
                     ELSE r.swf
           /\ pc' = IF r.err # NoError THEN "failed"
                    ELSE IF r.loc.read THEN "parseTags"
                    ELSE IF loc.ret = "loadAsset" /\ args.op = "load" THEN "load"
                    ELSE "done"
    /\ UNCHANGED <<files, texture, args, orig>>

\* load(path) after loadAsset has returned: the companion file is resolved and
\* loadExternalTexture starts on it
LoadTexture ==
    /\ pc = "load"
    /\ IF ~swf.hasExternalTexture
       THEN /\ pc' = "done"
            /\ UNCHANGED <<swf, loc, err, args>>
       ELSE LET texturePath == TexturePath(swf, files)
            IN  IF texturePath = NoPath
                THEN /\ err' = "INVALID_EXTERNAL_TEXTURE"
                     /\ pc' = "failed"
                     /\ UNCHANGED <<swf, loc, args>>
                ELSE /\ swf' = [swf EXCEPT !.buffer = fromCompressed(files[texturePath]).buffer,
                                           !.pos = 0]
                     /\ loc' = NewLoc(swf, "loadExternalTexture")
                     /\ args' = [args EXCEPT !.texturePath = texturePath,
                                              !.mainWithData = loc.withData]
                     /\ pc' = "parseTags"
                     /\ UNCHANGED err
    /\ UNCHANGED <<files, texture, orig>>

(***************************************************************************)
(* Crafted files: a header, up to MaxTags tags of a palette, tag 0.        *)
(***************************************************************************)
RECURSIVE Join(_)
Join(parts) == IF parts = <<>> THEN <<>> ELSE Head(parts) \o Join(Tail(parts))

TagSeqs(palette) == UNION {[1..k -> palette] : k \in 0..MaxTags}

Terminator == saveTag(0, <<>>)

\* a texture tag of a 1x1 GL_LUMINANCE8 image whose pixel is `value`
TexTag(id, value) == saveTag(id, <<10>> \o U16(1) \o U16(1) \o <<value>>)

\* a record that no case of the dispatcher names
UnknownTag == saveTag(99, <<7, 7>>)

ParsePalette ==
    {saveTag(26, <<>>), TexTag(1, 9), saveTag(2, <<1>>), saveTag(12, <<1>>),
     saveTag(7, <<1>>), saveTag(8, <<5>>), saveTag(37, U16(1)), saveTag(38, <<1>>),
     saveTag(42, U16(1) \o U16(0) \o writeASCII(<<>>)), UnknownTag}

MainFile(n, textures, tags) ==
    toCompressed(HeaderBytes(n, n, textures, n, 1, 1, <<>>) \o Join(tags) \o Terminator,
                 "NONE")

\* Parse specification: loadAsset of a crafted main file by a fresh instance.
InitParse ==
    /\ pc = "loadAsset"
    /\ swf = NewSwf
    /\ loc = NoLoc
    /\ \E n \in 0..MaxCount, tags \in TagSeqs(ParsePalette) :
          files = [p \in {MainPath} |-> MainFile(n, n, tags)]
    /\ err = NoError
    /\ texture = NewTexture
    /\ orig = NewTexture
    /\ args = [op |-> "loadAsset", path |-> MainPath, texturePath |-> NoPath,
               mainWithData |-> 0]

NextParse == LoadAsset \/ ParseTag

SpecParse == InitParse /\ [][NextParse]_vars

\* Load specification: load of a crafted main file, with any of the three companion
\* files '_tex.sc', '_highres_tex.sc', '_lowres_tex.sc' present.
LoadPalette ==
    {saveTag(23, <<>>), saveTag(26, <<>>), saveTag(30, <<>>),
     saveTag(32, writeASCII(DefaultLowres) \o writeASCII(DefaultHighres)),
     TexTag(1, 9), saveTag(24, <<10>> \o U16(1) \o U16(1))}

CommonPath == TexPath(<<>>)

HighresPath == TexPath(DefaultHighres)

LowresPath == TexPath(DefaultLowres)

\* the pixel value that tells the companion files apart
Mark(path) == IF path = CommonPath THEN 1 ELSE IF path = HighresPath THEN 2 ELSE 3

\* a companion file: k texture tags with pixel data, tag 0
TexFile(path, k) ==
    toCompressed(Join([i \in 1..k |-> TexTag(1, Mark(path))]) \o Terminator, "NONE")

InitLoad ==
    /\ pc = "loadAsset"
    /\ swf = NewSwf
    /\ loc = NoLoc
    /\ \E n \in 0..MaxCount, tags \in TagSeqs(LoadPalette), k \in 1..(MaxCount + 1),
          present \in SUBSET {CommonPath, HighresPath, LowresPath} :
          files = [p \in {MainPath} \cup present |->
                      IF p = MainPath THEN MainFile(0, n, tags) ELSE TexFile(p, k)]
    /\ err = NoError
    /\ texture = NewTexture
    /\ orig = NewTexture
    /\ args = [op |-> "load", path |-> MainPath, texturePath |-> NoPath,
               mainWithData |-> 0]

NextLoad == LoadAsset \/ ParseTag \/ LoadTexture

SpecLoad == InitLoad /\ [][NextLoad]_vars

(***************************************************************************)
(* Claims about the load side.                                             *)
(***************************************************************************)
\* the texture count the main file's header declares
DeclaredTextures == readUInt16(files[MainPath].data, 4)

CountErrors ==
    {"INVALID_SHAPE_COUNT", "Trying to load too many MovieClips", "INVALID_TEXTFIELD_COUNT"}

\* what one ParseTag step does to a tag of a counted kind: below the declared count the
\* tag is accepted and counted, at the declared count the step fails with the kind's
\* error having read the tag header only
CountStep(kindTags, loaded, loadedNext, declared, error) ==
    (pc = "parseTags" /\ CanRead(swf.buffer, swf.pos, 5)
        /\ readUInt8(swf.buffer, swf.pos) \in kindTags)
    => IF loaded < declared
       THEN /\ err' \notin CountErrors
            /\ err' = NoError =>
                  /\ loadedNext = loaded + 1
                  /\ swf'.pos = swf.pos + 5 + readInt32(swf.buffer, swf.pos + 1)
       ELSE /\ err' = error
            /\ pc' = "failed"
            /\ loadedNext = loaded
            /\ swf'.pos = swf.pos + 5

\* C5: for shapes, movie clips and text fields, parseTags accepts the first N tags of
\* the kind when the header declares N, and fails on the (N+1)-th before its record is
\* loaded or its counter incremented.
C5_CountEnforcement ==
    [][/\ CountStep(ShapeTags, loc.shapesLoaded, loc'.shapesLoaded,
                    swf._shapeCount, "INVALID_SHAPE_COUNT")
       /\ CountStep(MovieClipTags, loc.movieclipsLoaded, loc'.movieclipsLoaded,
                    swf._movieClipsCount, "Trying to load too many MovieClips")
       /\ CountStep(TextFieldTags, loc.textfieldsLoaded, loc'.textfieldsLoaded,
                    swf._textFieldsCount, "INVALID_TEXTFIELD_COUNT")]_vars

\* C5 witness: with one movie clip declared, the first movie-clip tag was accepted and
\* the second rejected.
C5_Witness ==
    /\ pc = "failed"
    /\ err = "Trying to load too many MovieClips"
    /\ swf._movieClipsCount = 1
    /\ loc.movieclipsLoaded = 1
    /\ loc.tag \in MovieClipTags

Max(a, b) == IF a > b THEN a ELSE b

\* texture tags read with pixel payload from the main file / from the companion file
MainWithData == IF loc.ret = "loadAsset" THEN loc.withData ELSE args.mainWithData

CompanionWithData == IF loc.ret = "loadExternalTexture" THEN loc.withData ELSE 0

\* C6 as stated: after a load that completes without error, textures.length equals the
\* texture count the main file's header declares.
C6_LengthIsDeclared ==
    (pc = "done" /\ err = NoError) => Len(swf.textures) = DeclaredTextures

\* C6 as amended: after a load that completes without error, textures.length is the
\* largest of the declared texture count and the numbers of texture tags read with
\* pixel payload from the main file and from the companion file.
C6_LengthIsDeclaredOrTagsWithData ==
    (pc = "done" /\ err = NoError) =>
        Len(swf.textures) = Max(DeclaredTextures, Max(MainWithData, CompanionWithData))

\* C6 witness: a load through a companion file ended with more textures than declared.
C6_Witness ==
    /\ pc = "done"
    /\ err = NoError
    /\ args.texturePath # NoPath
    /\ CompanionWithData > DeclaredTextures
    /\ Len(swf.textures) = CompanionWithData

\* C7 as stated: after a loadAsset that completes without error, the shape, movie-clip
\* and text-field tags consumed equal the header counts, and the modifier tags
\* consumed equal the count read from tag 37.
C7_CountsEqualDeclared ==
    (pc = "done" /\ err = NoError) =>
        /\ loc.shapesLoaded = swf._shapeCount
        /\ loc.movieclipsLoaded = swf._movieClipsCount
        /\ loc.textfieldsLoaded = swf._textFieldsCount
        /\ loc.modifiersLoaded = swf._modifiersCount

\* C7 as amended: after a loadAsset that completes without error, the shape, movie-clip
\* and text-field tags consumed are at most the header counts, and the modifier tags
\* consumed at most the largest modifier count in force during the parse.
C7_CountsAtMostDeclared ==
    (pc = "done" /\ err = NoError) =>
        /\ loc.shapesLoaded <= swf._shapeCount
        /\ loc.movieclipsLoaded <= swf._movieClipsCount
        /\ loc.textfieldsLoaded <= swf._textFieldsCount
        /\ loc.modifiersLoaded <= loc.maxModifiers

\* C7 witness: a loadAsset completed although a declared shape never came, with the
\* one modifier tag 37 announced consumed.
C7_Witness ==
    /\ pc = "done"
    /\ err = NoError
    /\ swf._shapeCount = 1
    /\ loc.shapesLoaded = 0
    /\ loc.modifiersLoaded = 1
    /\ loc.maxModifiers = 1

\* parseTags from (s, l) to its end: the result of the step that read tag 0 or threw
RECURSIVE Run(_, _, _)
Run(s, l, fuel) ==
    LET r == ParseStep(s, l)
    IN  IF r.err # NoError \/ ~r.loc.read THEN r
        ELSE IF fuel = 0 THEN Result(r.swf, r.loc, "no end")
        ELSE Run(r.swf, r.loc, fuel - 1)

\* the buffer with `bytes` inserted at the read cursor
InsertAtCursor(s, bytes) ==
    [s EXCEPT !.buffer = SubSeq(@, 1, s.pos) \o bytes \o SubSeq(@, s.pos + 1, Len(@))]

\* records of unrecognised ids: empty, two bytes, and bytes that read as a shape tag
UnknownRecords == {saveTag(99, <<>>), saveTag(41, <<7, 7>>), saveTag(255, saveTag(2, <<1>>))}

\* what a parse leaves behind, the cursor and the buffer aside
Parsed(r) ==
    <<r.err, r.swf.hasExternalTexture, r.swf.useUncommonTexture, r.swf.useLowresTexture,
      r.swf.highresPostfix, r.swf.lowresPostfix, r.swf.textures, r.swf.banks,
      r.swf._modifiersCount, r.loc.hasTextureData, r.loc.shapesLoaded,
      r.loc.movieclipsLoaded, r.loc.textfieldsLoaded, r.loc.modifiersLoaded,
      r.loc.texturesLoaded, r.loc.banksLoaded, r.loc.matricesLoaded, r.loc.colorsLoaded>>

\* C8: when the stream parses successfully, a record of an unrecognised tag id with a
\* length L >= 0 and L bytes, inserted at a tag boundary, is stepped over to the next
\* tag header and leaves the parse result unchanged.
C8_UnknownTagTolerance ==
    pc = "parseTags" =>
        \A u \in UnknownRecords :
            LET base == Run(swf, loc, Len(swf.buffer))
                inserted == InsertAtCursor(swf, u)
                first == ParseStep(inserted, loc)
                with == Run(inserted, loc, Len(inserted.buffer))
            IN  base.err = NoError =>
                    /\ first.err = NoError
                    /\ first.swf = [inserted EXCEPT !.pos = swf.pos + Len(u)]
                    /\ Parsed(with) = Parsed(base)
                    /\ with.swf.pos = base.swf.pos + Len(u)

\* C8 witness: a stream with an unrecognised record after a shape tag and before a
\* text-field tag parsed to its end.
C8_Witness ==
    /\ pc = "done"
    /\ err = NoError
    /\ loc.shapesLoaded = 1
    /\ loc.textfieldsLoaded = 1
    /\ SubSeq(swf.buffer, 26, 25 + Len(UnknownTag)) = UnknownTag

\* the candidate the claim's precedence selects: highres, else lowres, else common
PrecedenceChoice(s, fs) ==
    IF existsSync(fs, TexPath(s.highresPostfix)) THEN TexPath(s.highresPostfix)
    ELSE IF existsSync(fs, TexPath(s.lowresPostfix)) THEN TexPath(s.lowresPostfix)
    ELSE IF existsSync(fs, TexPath(<<>>)) THEN TexPath(<<>>)
    ELSE NoPath

\* the candidate by the flag: with useUncommonTexture highres, else lowres; without it
\* the common file
FlagChoice(s, fs) ==
    IF s.useUncommonTexture
    THEN (IF existsSync(fs, TexPath(s.highresPostfix)) THEN TexPath(s.highresPostfix)
          ELSE IF existsSync(fs, TexPath(s.lowresPostfix)) THEN TexPath(s.lowresPostfix)
          ELSE NoPath)
    ELSE IF existsSync(fs, TexPath(<<>>)) THEN TexPath(<<>>)
    ELSE NoPath

\* the step of load that follows loadAsset, when hasExternalTexture is set: it fails
\* with the missing-external-texture error if `choice` is no path, and else starts
\* parsing the file `choice` names
ResolvesTo(choice) ==
    (pc = "load" /\ swf.hasExternalTexture) =>
        IF choice = NoPath
        THEN err' = "INVALID_EXTERNAL_TEXTURE" /\ pc' = "failed"
        ELSE /\ err' = NoError
             /\ pc' = "parseTags"
             /\ args'.texturePath = choice
             /\ swf'.buffer = files[choice].data

\* C9 as stated: load selects highres if it exists, else lowres if it exists, else the
\* common file if it exists, and fails only when none exists.
C9_PrecedenceOfExisting == [][ResolvesTo(PrecedenceChoice(swf, files))]_vars

\* C9 as amended: with useUncommonTexture set, load selects highres if it exists, else
\* lowres if it exists, and fails otherwise; with it unset, load selects the common
\* file if it exists and fails otherwise.
C9_PrecedenceByFlag == [][ResolvesTo(FlagChoice(swf, files))]_vars

\* C9 witness: with useUncommonTexture set and all three files present, the highres
\* file was selected and parsed.
C9_Witness ==
    /\ pc = "done"
    /\ err = NoError
    /\ swf.useUncommonTexture
    /\ DOMAIN files = {MainPath, CommonPath, HighresPath, LowresPath}
    /\ args.texturePath = TexPath(swf.highresPostfix)
    /\ swf.textures # <<>>
    /\ swf.textures[1].image.data = <<<<Mark(args.texturePath)>>>>

(***************************************************************************)
(* Container orchestrator: save.                                           *)
(***************************************************************************)
\* the ids of Object.entries(resources) whose instance is of `kind`: integer keys
\* come in ascending order
RECURSIVE Ascending(_)
Ascending(ids) ==
    IF ids = {} THEN <<>>
    ELSE LET least == CHOOSE i \in ids : \A j \in ids : i <= j
         IN  <<least>> \o Ascending(ids \ {least})

IdsOf(resources, kind) == Ascending({id \in DOMAIN resources : resources[id].kind = kind})

\* save(id, swf) of a resource whose layout is outside this model: one tag of the
\* resource's kind, its payload the id
ResourceSave(resources, ids) ==
    Join([i \in 1..Len(ids) |-> saveTag(resources[ids[i]].tag, U16(ids[i]))])

\* TransformBank.save(swf, true): tag 42 with the counts and the bank name
BankSaveTag(bank) ==
    saveTag(42, U16(Len(bank.matrices)) \o U16(Len(bank.colors)) \o writeASCII(bank.name))

\* a bank loop that writes colors before matrices
BanksSaveColorsFirst(banks) ==
    Join([i \in 1..Len(banks) |->
            (IF i > 1 THEN BankSaveTag(banks[i]) ELSE <<>>)
            \o Join([c \in 1..Len(banks[i].colors) |-> saveTag(9, banks[i].colors[c])])
            \o Join([m \in 1..Len(banks[i].matrices) |-> saveTag(8, banks[i].matrices[m])])])

\* the body of the bank loop: tag 42 for every bank but the first, the matrices, the
\* colors
BanksSave(banks) ==
    Join([i \in 1..Len(banks) |->
            (IF i > 1 THEN BankSaveTag(banks[i]) ELSE <<>>)
            \o Join([m \in 1..Len(banks[i].matrices) |-> saveTag(8, banks[i].matrices[m])])
            \o Join([c \in 1..Len(banks[i].colors) |-> saveTag(9, banks[i].colors[c])])])

\* `for (const texture of this.textures) texture.save(this, hasData, isLowres)`: the
\* textures afterwards and the tags written
TexturesSave(textures, hasData, isLowres) ==
    [textures |-> [i \in 1..Len(textures) |->
                      TextureSave(textures[i], hasData, isLowres).texture],
     bytes |-> Join([i \in 1..Len(textures) |->
                      TextureSave(textures[i], hasData, isLowres).bytes])]

\* saveAsset, the condition under which the postfix tag 32 is written
WritesPostfixTag(s) ==
    s.useUncommonTexture /\ s.highresPostfix # DefaultHighres
    /\ s.lowresPostfix # DefaultLowres

\* saveAsset(path): the instance afterwards (its textures saved, its buffer cleared)
\* and the file written
SaveAsset(s) ==
    LET movieClipModifierIds == IdsOf(s.resources, "MovieClipModifier")
        shapeIds == IdsOf(s.resources, "Shape")
        textFieldIds == IdsOf(s.resources, "TextField")
        movieClipIds == IdsOf(s.resources, "MovieClip")
        matrices == IF Len(s.banks) > 0 THEN Len(s.banks[1].matrices) ELSE 0
        colors == IF Len(s.banks) > 0 THEN Len(s.banks[1].colors) ELSE 0
        tex == TexturesSave(s.textures, ~s.hasExternalTexture, FALSE)
        buffer ==
            HeaderBytes(Len(shapeIds), Len(movieClipIds), Len(s.textures),
                        Len(textFieldIds), matrices, colors, s.exports)
            \o (IF WritesPostfixTag(s)
                THEN saveTag(32, writeASCII(s.highresPostfix) \o writeASCII(s.lowresPostfix))
                ELSE <<>>)
            \o (IF s.useLowresTexture THEN saveTag(23, <<>>) ELSE <<>>)
            \o (IF s.useUncommonTexture THEN saveTag(30, <<>>) ELSE <<>>)
            \o (IF s.hasExternalTexture THEN saveTag(26, <<>>) ELSE <<>>)
            \o tex.bytes
            \o (IF Len(movieClipModifierIds) > 0
                THEN saveTag(37, U16(Len(movieClipModifierIds))) ELSE <<>>)
            \o ResourceSave(s.resources, movieClipModifierIds)
            \o ResourceSave(s.resources, shapeIds)
            \o ResourceSave(s.resources, textFieldIds)
            \o BanksSave(s.banks)
            \o ResourceSave(s.resources, movieClipIds)
            \o saveTag(0, <<>>)
    IN  [swf |-> [s EXCEPT !.textures = tex.textures, !.buffer = <<>>, !.pos = 0],
         file |-> toCompressed(buffer, s.compression)]

\* a companion writer that never downscales
SaveExternalFullSize(s, isLowres) ==
    LET tex == TexturesSave(s.textures, TRUE, FALSE)
    IN  [swf |-> [s EXCEPT !.textures = tex.textures, !.buffer = <<>>, !.pos = 0],
         file |-> toCompressed(tex.bytes \o saveTag(0, <<>>), s.compression)]

\* saveAsset, the <<resourceWritten, resourcesCount>> of its resources_save reports, in
\* order: one after tag 37, one per modifier, shape, text field, bank and movie clip
SaveReports(s) ==
    LET modifiers == Len(IdsOf(s.resources, "MovieClipModifier"))
        resourcesCount == modifiers + Len(IdsOf(s.resources, "Shape"))
                          + Len(IdsOf(s.resources, "TextField"))
                          + Len(IdsOf(s.resources, "MovieClip")) + Len(s.banks)
        reports == IF modifiers > 0 THEN resourcesCount + 1 ELSE resourcesCount
    IN  [resourceWritten \in 1..reports |-> <<resourceWritten, resourcesCount>>]

\* saveExternalTexture(path, isLowres)
SaveExternal(s, isLowres) ==
    LET tex == TexturesSave(s.textures, TRUE, isLowres)
    IN  [swf |-> [s EXCEPT !.textures = tex.textures, !.buffer = <<>>, !.pos = 0],
         file |-> toCompressed(tex.bytes \o saveTag(0, <<>>), s.compression)]

\* fs.writeFileSync(path, file)
writeFileSync(fs, path, file) ==
    [p \in DOMAIN fs \cup {path} |-> IF p = path THEN file ELSE fs[p]]

(***************************************************************************)
(* Actions of the save side.                                               *)
(***************************************************************************)
\* save(path), its call of saveAsset
SaveAssetStep ==
    /\ pc = "save"
    /\ LET r == SaveAsset(swf)
       IN  /\ swf' = r.swf
           /\ files' = writeFileSync(files, args.path, r.file)
           /\ args' = [args EXCEPT !.reports = SaveReports(swf)]
           /\ pc' = IF ~swf.hasExternalTexture THEN "saved"
                    ELSE IF swf.useUncommonTexture THEN "saveLowres"
                    ELSE "saveExternal"
    /\ UNCHANGED <<loc, err, texture, orig>>

\* save(path), saveExternalTexture(<base><lowresPostfix>_tex.sc, true)
SaveLowresStep ==
    /\ pc = "saveLowres"
    /\ LET r == SaveExternal(swf, TRUE)
       IN  /\ swf' = r.swf
           /\ files' = writeFileSync(files, TexPath(swf.lowresPostfix), r.file)
    /\ pc' = "saveExternal"
    /\ UNCHANGED <<loc, err, texture, args, orig>>

\* save(path), saveExternalTexture(externalPath, false)
SaveExternalStep ==
    /\ pc = "saveExternal"
    /\ LET externalPath == IF swf.useUncommonTexture THEN TexPath(swf.highresPostfix)
                           ELSE TexPath(<<>>)
           r == SaveExternal(swf, FALSE)
       IN  /\ swf' = r.swf
           /\ files' = writeFileSync(files, externalPath, r.file)
    /\ pc' = "saved"
    /\ UNCHANGED <<loc, err, texture, args, orig>>

\* new SupercellSWF().loadAsset(path) on the file just saved; the saved document is
\* kept in orig
Reopen ==
    /\ pc = "saved"
    /\ orig' = swf
    /\ swf' = NewSwf
    /\ args' = [args EXCEPT !.op = "loadAsset"]
    /\ pc' = "loadAsset"
    /\ UNCHANGED <<loc, files, err, texture>>

(***************************************************************************)
(* Save specification: save of a document, then loadAsset of the file      *)
(* written by a fresh instance.                                            *)
(***************************************************************************)
\* texture i of a document: a 2x2 GL_LUMINANCE8 image, every pixel of value i
DocTexture(i) ==
    [NewTexture EXCEPT !.pixelFormat = "GL_LUMINANCE8",
                       !.image = [width |-> 2, height |-> 2, kind |-> "GREY",
                                  data |-> [k \in 1..4 |-> <<i>>]]]

\* bank i of a document: i matrices and i - 1 colors, each a one-byte run
DocBank(i) ==
    [name |-> <<>>, matrices |-> [m \in 1..i |-> <<10 * i + m>>],
     colors |-> [c \in 1..(i - 1) |-> <<20 * i + c>>]]

ResourceKinds == <<"MovieClip", "Shape", "MovieClipModifier", "TextField">>

KindTag(kind) ==
    CASE kind = "MovieClip" -> 12 [] kind = "Shape" -> 18
      [] kind = "MovieClipModifier" -> 38 [] OTHER -> 7

\* resources 1..count, their kinds taken in turn from ResourceKinds starting at `first`
DocResources(count, first) ==
    [id \in 1..count |->
        LET kind == ResourceKinds[((id + first) % 4) + 1]
        IN  [kind |-> kind, tag |-> KindTag(kind)]]

\* '_hd' and '_sd'
PostfixHd == <<95, 104, 100>>

PostfixSd == <<95, 115, 100>>

Documents ==
    {[NewSwf EXCEPT !.hasExternalTexture = ext, !.useUncommonTexture = unc,
                    !.useLowresTexture = low, !.highresPostfix = hp, !.lowresPostfix = lp,
                    !.textures = [i \in 1..t |-> DocTexture(i)],
                    !.banks = [i \in 1..b |-> DocBank(i)],
                    !.resources = DocResources(r, f)] :
        ext \in BOOLEAN, unc \in BOOLEAN, low \in BOOLEAN,
        hp \in {DefaultHighres, PostfixHd}, lp \in {DefaultLowres, PostfixSd, PostfixHd},
        t \in 0..MaxItems, b \in 0..MaxItems, r \in 0..MaxResources, f \in 0..1}

InitSave ==
    /\ pc = "save"
    /\ swf \in Documents
    /\ orig = swf
    /\ loc = NoLoc
    /\ files = NoFiles
    /\ err = NoError
    /\ texture = NewTexture
    /\ args = [op |-> "save", path |-> MainPath, texturePath |-> NoPath, mainWithData |-> 0,
               reports |-> <<>>]

NextSave ==
    SaveAssetStep \/ SaveLowresStep \/ SaveExternalStep \/ Reopen \/ LoadAsset \/ ParseTag

SpecSave == InitSave /\ [][NextSave]_vars

(***************************************************************************)
(* Claims about save.                                                      *)
(***************************************************************************)
\* the tags of a stream from `pos` to its end, each by its declared length
RECURSIVE TagList(_, _)
TagList(buf, pos) ==
    IF ~CanRead(buf, pos, 5) THEN <<>>
    ELSE LET id == readUInt8(buf, pos)
             length == readInt32(buf, pos + 1)
         IN  IF ~CanRead(buf, pos + 5, length)
             THEN <<[id |-> id, payload |-> <<>>, whole |-> FALSE]>>
             ELSE <<[id |-> id, payload |-> SubSeq(buf, pos + 6, pos + 5 + length),
                     whole |-> TRUE]>>
                  \o TagList(buf, pos + 5 + length)

\* the tags of the main file, after its header
MainTags == TagList(files[MainPath].data, LoadAssetHeader(NewSwf, files[MainPath]).swf.pos)

\* C3: for every document with useUncommonTexture set, saveAsset followed by
\* loadAsset into a fresh document gives the saved document's highresPostfix and
\* lowresPostfix, also when only one of them differs from its default.
C3_PostfixRoundTrip ==
    (pc = "done" /\ err = NoError /\ args.op = "loadAsset" /\ orig.useUncommonTexture) =>
        /\ swf.highresPostfix = orig.highresPostfix
        /\ swf.lowresPostfix = orig.lowresPostfix

KindOf(id) ==
    CASE id = 32 -> "postfix" [] id = 23 -> "lowres" [] id = 30 -> "uncommon"
      [] id = 26 -> "external" [] id \in TextureTags -> "texture" [] id = 37 -> "count"
      [] id \in ModifierTags -> "modifier" [] id \in ShapeTags -> "shape"
      [] id \in TextFieldTags -> "textField" [] id = 42 -> "bank"
      [] id \in MatrixTags -> "matrix" [] id \in ColorTags -> "color"
      [] id \in MovieClipTags -> "movieClip" [] id = 0 -> "end" [] OTHER -> "unknown"

Rep(kind, n) == [i \in 1..n |-> kind]

HowMany(doc, kind) == Cardinality({id \in DOMAIN doc.resources : doc.resources[id].kind = kind})

\* the order of C4 for a document, without the optional tag 32
TagOrder(doc) ==
    (IF doc.useLowresTexture THEN <<"lowres">> ELSE <<>>)
    \o (IF doc.useUncommonTexture THEN <<"uncommon">> ELSE <<>>)
    \o (IF doc.hasExternalTexture THEN <<"external">> ELSE <<>>)
    \o Rep("texture", Len(doc.textures))
    \o (IF HowMany(doc, "MovieClipModifier") > 0
        THEN <<"count">> \o Rep("modifier", HowMany(doc, "MovieClipModifier")) ELSE <<>>)
    \o Rep("shape", HowMany(doc, "Shape"))
    \o Rep("textField", HowMany(doc, "TextField"))
    \o Join([i \in 1..Len(doc.banks) |->
               (IF i > 1 THEN <<"bank">> ELSE <<>>)
               \o Rep("matrix", Len(doc.banks[i].matrices))
               \o Rep("color", Len(doc.banks[i].colors))])
    \o Rep("movieClip", HowMany(doc, "MovieClip"))
    \o <<"end">>

MainKinds == [i \in 1..Len(MainTags) |-> KindOf(MainTags[i].id)]

\* C4: the tags of the stream saveAsset writes are, in this order: optionally tag 32;
\* tag 23, tag 30, tag 26, each exactly when its flag is set; one tag per texture;
\* tag 37 and one tag per modifier when a modifier exists; the shapes; the text
\* fields; for each bank in index order tag 42 (index > 0), its matrices, its colors;
\* the movie clips; one tag 0, last.
C4_TagOrder ==
    pc = "saved" =>
        /\ \A i \in 1..Len(MainTags) : MainTags[i].whole
        /\ MainKinds \in {TagOrder(orig), <<"postfix">> \o TagOrder(orig)}

C4_Witness ==
    /\ pc = "saved"
    /\ Head(MainKinds) = "postfix"
    /\ orig.useLowresTexture /\ orig.hasExternalTexture
    /\ Len(orig.textures) = 2 /\ Len(orig.banks) = 2
    /\ HowMany(orig, "MovieClipModifier") = 1 /\ HowMany(orig, "Shape") = 1
    /\ HowMany(orig, "TextField") = 1

\* texture tag `tag` is texture i of the saved document at w x h, with its pixels or
\* with none
TextureTagOf(tag, i, w, h, withData) ==
    /\ tag.id \in TextureTags /\ tag.whole /\ Len(tag.payload) >= 5
    /\ readUInt16(tag.payload, 1) = w /\ readUInt16(tag.payload, 3) = h
    /\ SubSeq(tag.payload, 6, Len(tag.payload)) = (IF withData THEN Rep(i, w * h) ELSE <<>>)

Half(n) == (n + 1) \div 2

\* the file at `path` holds one texture tag with payload per texture of the saved
\* document, in textures order, at full or at half size, then tag 0
CompanionHolds(path, half) ==
    /\ path \in DOMAIN files
    /\ LET tags == TagList(files[path].data, 0)
           n == Len(orig.textures)
       IN  /\ Len(tags) = n + 1
           /\ tags[n + 1].id = 0
           /\ \A i \in 1..n :
                LET w == orig.textures[i].image.width
                    h == orig.textures[i].image.height
                IN  TextureTagOf(tags[i], i, IF half THEN Half(w) ELSE w,
                                 IF half THEN Half(h) ELSE h, TRUE)

\* the texture tags of the main file carry pixels exactly when hasExternalTexture is
\* unset
MainHolds ==
    LET tags == SelectSeq(MainTags, LAMBDA tag : tag.id \in TextureTags)
    IN  /\ Len(tags) = Len(orig.textures)
        /\ \A i \in 1..Len(tags) :
             TextureTagOf(tags[i], i, orig.textures[i].image.width,
                          orig.textures[i].image.height, ~orig.hasExternalTexture)

Companions == DOMAIN files \ {MainPath}

\* C10 as stated: save(path) puts pixel payloads in the main file exactly when
\* hasExternalTexture is unset; when it is set, the texture tags of the main file
\* carry no pixels and there is exactly one companion <base>_tex.sc, or exactly the
\* two companions <base><highresPostfix>_tex.sc at full size and
\* <base><lowresPostfix>_tex.sc at half size when useUncommonTexture is set.
C10_TwoCompanions ==
    pc = "saved" =>
        /\ MainHolds
        /\ (orig.hasExternalTexture /\ ~orig.useUncommonTexture) =>
              /\ Companions = {TexPath(<<>>)}
              /\ CompanionHolds(TexPath(<<>>), FALSE)
        /\ (orig.hasExternalTexture /\ orig.useUncommonTexture) =>
              /\ Companions = {TexPath(orig.highresPostfix), TexPath(orig.lowresPostfix)}
              /\ Cardinality(Companions) = 2
              /\ CompanionHolds(TexPath(orig.highresPostfix), FALSE)
              /\ CompanionHolds(TexPath(orig.lowresPostfix), TRUE)

\* C10: as above, but with useUncommonTexture set the half-size companion is a file of
\* its own only when the two postfixes differ; with equal postfixes one companion is
\* left, at full size.
C10_CompanionsPerPostfix ==
    pc = "saved" =>
        /\ MainHolds
        /\ (orig.hasExternalTexture /\ ~orig.useUncommonTexture) =>
              /\ Companions = {TexPath(<<>>)}
              /\ CompanionHolds(TexPath(<<>>), FALSE)
        /\ (orig.hasExternalTexture /\ orig.useUncommonTexture) =>
              /\ Companions = {TexPath(orig.highresPostfix), TexPath(orig.lowresPostfix)}
              /\ CompanionHolds(TexPath(orig.highresPostfix), FALSE)
              /\ (orig.highresPostfix # orig.lowresPostfix =>
                    CompanionHolds(TexPath(orig.lowresPostfix), TRUE))

C10_Witness ==
    /\ pc = "saved"
    /\ orig.hasExternalTexture /\ orig.useUncommonTexture
    /\ Len(orig.textures) = 2
    /\ orig.highresPostfix # orig.lowresPostfix
    /\ Cardinality(Companions) = 2
    /\ CompanionHolds(TexPath(orig.lowresPostfix), TRUE)

(***************************************************************************)
(* Claims about malformed input.                                           *)
(***************************************************************************)
\* C11: Texture.load of a tag whose pixel-format index is outside [0, 10] fails with an
\* error, for every size and whether or not the tag carries pixel data.
C11_UnknownFormatFails ==
    (pc = "tex_loaded" /\ args.op = "load" /\ readUInt8(swf.buffer, 0) \notin 0..10)
        => err # NoError

\* tag headers that declare a negative payload length, for the ids whose case is
\* dispatched without a record class: the terminator, the flags, a texture tag, the
\* modifier count and an unknown id
NegativeTags ==
    {<<id>> \o I32(n) : id \in {0, 23, 26, 30, 99}, n \in {-1, -5}}
    \cup {<<1>> \o I32(-1) \o <<10>> \o U16(1) \o U16(1) \o <<9>>,
          <<37>> \o I32(-1) \o U16(1)}

MalformedPalette == NegativeTags \cup {TexTag(1, 9), saveTag(2, <<1>>)}

\* Malformed specification: loadAsset of a crafted main file with tag headers of
\* negative length by a fresh instance.
InitMalformed ==
    /\ pc = "loadAsset"
    /\ swf = NewSwf
    /\ loc = NoLoc
    /\ \E n \in 0..MaxCount, k \in 0..MaxMalformed :
          \E tags \in [1..k -> MalformedPalette] :
             files = [p \in {MainPath} |-> MainFile(n, n, tags)]
    /\ err = NoError
    /\ texture = NewTexture
    /\ orig = NewTexture
    /\ args = [op |-> "loadAsset", path |-> MainPath, texturePath |-> NoPath,
               mainWithData |-> 0]

SpecMalformed == InitMalformed /\ [][NextParse]_vars

\* C12: a parseTags step on a tag header that declares a negative payload length fails
\* with an error, whatever the tag id: the tag is not dispatched and the cursor does
\* not move backward.
C12_NegativeLengthFails ==
    [][(pc = "parseTags" /\ CanRead(swf.buffer, swf.pos, 5)
            /\ readInt32(swf.buffer, swf.pos + 1) < 0)
       => (err' # NoError /\ pc' = "failed")]_vars

(***************************************************************************)
(* Claims about the texture payload.                                       *)
(***************************************************************************)
\* C13: for a texture tag written by Texture.save with pixel data, the declared tag
\* length is 5 + width * height * bytesPerPixel of the format named by the index
\* written in the tag, and it is the number of bytes Texture.load consumes for the tag,
\* also when save rewrites a pixelFormat that does not belong to the image's kind.
C13_TagLengthConsistent ==
    /\ (pc = "tex_saved" /\ args.hasData) =>
          LET index == readUInt8(swf.buffer, 5)
              width == readUInt16(swf.buffer, 6)
              height == readUInt16(swf.buffer, 8)
          IN  args.tagLength = 5 + width * height * BytesPerPixel(PixelFormatAt(index))
    /\ (pc = "tex_loaded" /\ args.op = "reload" /\ args.hasData) =>
          (err = NoError /\ swf.pos = 5 + args.tagLength)

\* sides below one block, of whole blocks, and one pixel short of or past whole blocks
WalkSizes == {1, 2} \cup {b * blockSize + d : b \in 1..MaxBlocks, d \in {-1, 0, 1}}

\* Walk specification: the block walks of Texture.save and of Texture.load on an image
\* of a given size.
InitWalk ==
    /\ pc = "walk"
    /\ \E w \in WalkSizes, h \in WalkSizes : args = [op |-> "walk", width |-> w, height |-> h]
    /\ swf = NewSwf
    /\ loc = NoLoc
    /\ files = NoFiles
    /\ err = NoError
    /\ texture = NewTexture
    /\ orig = NewTexture

\* the loops of Texture.save and of Texture.load with linear = false: the (x, y) save
\* takes the k-th pixel of the payload from, and the (x, y) load puts it at
WalkBlocks ==
    /\ pc = "walk"
    /\ loc' = [loc EXCEPT !.report = <<SaveBlockWalk(args.width, args.height),
                                       BlockWalk(args.width, args.height)>>]
    /\ pc' = "walked"
    /\ UNCHANGED <<swf, files, err, texture, args, orig>>

SpecWalk == InitWalk /\ [][WalkBlocks]_vars

PixelBytesAtCursor ==
    LET at == swf.pos + 5
    IN  readUInt16(swf.buffer, at + 1) * readUInt16(swf.buffer, at + 3)
        * BytesPerPixel(PixelFormatAt(readUInt8(swf.buffer, at)))

\* C15: a texture tag is read with its pixel payload exactly when no tag 26 came
\* earlier in the same stream, the main file's or a companion's: with payload the
\* cursor passes the pixels and the texture of the tag's position in the stream
\* receives them; without, the cursor stops after the five header bytes of the payload.
C15_PayloadUntilTag26 ==
    [][(/\ pc = "parseTags"
        /\ CanRead(swf.buffer, swf.pos, 10)
        /\ readUInt8(swf.buffer, swf.pos) \in TextureTags
        /\ err' = NoError)
       => IF 26 \notin loc.seen
          THEN /\ swf'.pos = swf.pos + 10 + PixelBytesAtCursor
               /\ loc'.withData = loc.withData + 1
               /\ Len(swf'.textures) > loc.texturesLoaded
               /\ swf'.textures[loc.texturesLoaded + 1].image.data
                    = <<<<readUInt8(swf.buffer, swf.pos + 10)>>>>
          ELSE /\ swf'.pos = swf.pos + 10
               /\ loc'.withData = loc.withData]_vars

\* C15 witness: the main file had a texture tag with payload before its tag 26, and
\* the two texture tags of the companion were then read with payload into textures[0]
\* and textures[1].
C15_Witness ==
    /\ pc = "done" /\ err = NoError
    /\ loc.ret = "loadExternalTexture"
    /\ 26 \notin loc.seen
    /\ args.mainWithData = 1
    /\ loc.withData = 2
    /\ Len(swf.textures) >= 2
    /\ swf.textures[1].image.data = <<<<Mark(args.texturePath)>>>>
    /\ swf.textures[2].image.data = <<<<Mark(args.texturePath)>>>>

\* C16: every resources_load and resources_save report is a percentage between 0 and
\* 100: the items counted so far do not exceed the total that is the denominator, and
\* the denominator is not zero.
C16_ProgressInRange ==
    /\ \A i \in 1..Len(args.reports) :
          args.reports[i][2] # 0 /\ args.reports[i][1] <= args.reports[i][2]
    /\ loc.report # <<>> => (loc.report[2] # 0 /\ loc.report[1] <= loc.report[2])

\* the path 'b.sc'
OtherPath == <<98, 46, 115, 99>>

\* the flag tags, the modifier count and a modifier
ReusePalette ==
    {saveTag(23, <<>>), saveTag(26, <<>>), saveTag(30, <<>>), saveTag(37, U16(1)),
     saveTag(38, <<1>>)}

\* Reuse specification: one instance calls loadAsset on a first file and then on a
\* second.
InitReuse ==
    /\ pc = "loadAsset"
    /\ swf = NewSwf
    /\ loc = NoLoc
    /\ \E j \in 0..MaxReuse, k \in 0..MaxReuse :
          \E first \in [1..j -> ReusePalette], second \in [1..k -> ReusePalette] :
             files = [p \in {MainPath, OtherPath} |->
                         IF p = MainPath THEN MainFile(0, 0, first)
                         ELSE MainFile(0, 0, second)]
    /\ err = NoError
    /\ texture = NewTexture
    /\ orig = NewTexture
    /\ args = [op |-> "loadAsset", path |-> MainPath, texturePath |-> NoPath,
               mainWithData |-> 0, round |-> 1]

\* the instance that has loaded the first file calls loadAsset on the second
LoadAssetAgain ==
    /\ pc = "done"
    /\ args.round = 1
    /\ args' = [args EXCEPT !.path = OtherPath, !.round = 2]
    /\ pc' = "loadAsset"
    /\ UNCHANGED <<swf, loc, files, err, texture, orig>>

NextReuse == LoadAsset \/ ParseTag \/ LoadAssetAgain

SpecReuse == InitReuse /\ [][NextReuse]_vars

\* whether the tag stream of the file at `path` holds a tag `id`
FileHasTag(path, id) ==
    LET tags == TagList(files[path].data, LoadAssetHeader(NewSwf, files[path]).swf.pos)
    IN  \E i \in 1..Len(tags) : tags[i].id = id

\* C17: after loadAsset(f), on a fresh or a used instance, useLowresTexture,
\* useUncommonTexture and hasExternalTexture are true exactly when f holds tag 23, 30,
\* 26, and a modifier tag is accepted only after a tag 37 of f.
C17_LoadIndependentOfHistory ==
    /\ (pc = "done" /\ err = NoError) =>
          /\ swf.useLowresTexture = FileHasTag(args.path, 23)
          /\ swf.useUncommonTexture = FileHasTag(args.path, 30)
          /\ swf.hasExternalTexture = FileHasTag(args.path, 26)
    /\ (pc \in {"parseTags", "done"} /\ loc.modifiersLoaded > 0) => 37 \in loc.seen

(***************************************************************************)
(* SupercellSWF.clone.                                                     *)
(***************************************************************************)
\* Texture.clone(): new Texture({...}) with the six fields named
TextureClone(t) ==
    [NewTexture EXCEPT !.pixelFormat = t.pixelFormat, !.magFilter = t.magFilter,
                       !.minFilter = t.minFilter, !.linear = t.linear,
                       !.downscaling = t.downscaling, !.image = t.image]

\* clone(): new SupercellSWF({...}), Object.assign of the fields named onto the field
\* initialisers
Clone(s) ==
    [NewSwf EXCEPT !.compression = s.compression,
                   !.hasExternalTexture = s.hasExternalTexture,
                   !.useUncommonTexture = s.useUncommonTexture,
                   !.exports = s.exports,
                   !.textures = [i \in 1..Len(s.textures) |-> TextureClone(s.textures[i])],
                   !.highresPostfix = s.highresPostfix,
                   !.lowresPostfix = s.lowresPostfix,
                   !.banks = s.banks,
                   !.resources = s.resources]

COMPRESSION == {"NONE", "LZMA", "LZHAM", "ZSTD"}

CloneDocuments ==
    {[NewSwf EXCEPT !.compression = c, !.hasExternalTexture = ext,
                    !.useUncommonTexture = unc, !.useLowresTexture = low,
                    !.highresPostfix = hp, !.lowresPostfix = lp,
                    !.textures = [i \in 1..t |-> DocTexture(i)]] :
        c \in COMPRESSION, ext \in BOOLEAN, unc \in BOOLEAN, low \in BOOLEAN,
        hp \in {DefaultHighres, PostfixHd}, lp \in {DefaultLowres, PostfixSd},
        t \in 0..MaxItems}

\* Clone specification: clone() of a document.
InitClone ==
    /\ pc = "clone"
    /\ swf \in CloneDocuments
    /\ orig = swf
    /\ loc = NoLoc
    /\ files = NoFiles
    /\ err = NoError
    /\ texture = NewTexture
    /\ args = [op |-> "clone"]

\* swf.clone(): the clone takes the place of the document, which is kept in orig
CloneStep ==
    /\ pc = "clone"
    /\ swf' = Clone(swf)
    /\ pc' = "cloned"
    /\ UNCHANGED <<loc, files, err, texture, args, orig>>

SpecClone == InitClone /\ [][CloneStep]_vars

\* C18: the document clone() returns has the compression, hasExternalTexture,
\* useUncommonTexture, useLowresTexture, highresPostfix and lowresPostfix of the
\* original.
C18_CloneCopiesFields ==
    pc = "cloned" =>
        /\ swf.compression = orig.compression
        /\ swf.hasExternalTexture = orig.hasExternalTexture
        /\ swf.useUncommonTexture = orig.useUncommonTexture
        /\ swf.useLowresTexture = orig.useLowresTexture
        /\ swf.highresPostfix = orig.highresPostfix
        /\ swf.lowresPostfix = orig.lowresPostfix

(***************************************************************************)
(* Texture JSON form.                                                      *)
(***************************************************************************)
\* the members of the FILTERS enum in declaration order, and their names
FilterMembers == <<GL_LINEAR, GL_NEAREST, GL_LINEAR_MIPMAP_NEAREST>>

FilterNames == <<"GL_LINEAR", "GL_NEAREST", "GL_LINEAR_MIPMAP_NEAREST">>

\* FILTERS[value]: the name of an enum value
FilterNameOf(value) == FilterNames[IndexOf(FilterMembers, value) + 1]

\* FILTERS[name]: the enum value of a name, undefined for a string that is no name
FilterValueOf(name) ==
    IF Includes(FilterNames, name) THEN FilterMembers[IndexOf(FilterNames, name) + 1]
    ELSE Undefined

\* image.add(255, {channels: [last]}): the last channel saturates at 255
AlphaTo255(img) ==
    [img EXCEPT !.data = [k \in 1..Len(@) |-> [@[k] EXCEPT ![Len(@[k])] = 255]]]

\* image.rgba8()
Rgba8(img) ==
    LET pixel(p) == CASE img.kind = "GREY" -> <<p[1], p[1], p[1], 255>>
                      [] img.kind = "GREYA" -> <<p[1], p[1], p[1], p[2]>>
                      [] img.kind = "RGB" -> <<p[1], p[2], p[3], 255>>
                      [] OTHER -> p
    IN  [img EXCEPT !.kind = "RGBA", !.data = [k \in 1..Len(@) |-> pixel(@[k])]]

\* image.combineChannels(mean of r, g, b, {keepAlpha})
CombineChannels(img, keepAlpha) ==
    LET alpha == keepAlpha /\ HasAlpha(img.kind)
        grey(p) == (p[1] + p[2] + p[3]) \div 3
    IN  [img EXCEPT !.kind = IF alpha THEN "GREYA" ELSE "GREY",
                    !.data = [k \in 1..Len(@) |->
                                 IF alpha THEN <<grey(@[k]), @[k][Len(@[k])]>>
                                 ELSE <<grey(@[k])>>]]

\* image.resize({width, height, preserveAspectRatio: false}), nearest source pixel
ResizeTo(img, w, h) ==
    [width |-> w, height |-> h, kind |-> img.kind,
     data |-> [i \in 1..(w * h) |->
                 getPixelXY(img, (((i - 1) % w) * img.width) \div w,
                            (((i - 1) \div w) * img.height) \div h)]]

\* set channels(count): the four conversions in turn, each on the image the one before
\* left
SetChannels(img, count) ==
    LET c0 == Channels(img.kind)
        img1 == IF c0 - 1 = count /\ c0 \notin {3, 1} THEN AlphaTo255(img) ELSE img
        c1 == Channels(img1.kind)
        img2 == IF c1 + 1 = count /\ c1 \in {1, 3} THEN Rgba8(img1) ELSE img1
        c2 == Channels(img2.kind)
        img3 == IF c2 \in {3, 4} /\ count \in {1, 2} THEN CombineChannels(img2, count # 1)
                ELSE img2
        c3 == Channels(img3.kind)
    IN  IF count = c0 THEN img
        ELSE IF c3 \in {1, 2} /\ count \in {3, 4} THEN Rgba8(img3) ELSE img3

\* set pixelFormat(format)
SetPixelFormat(t, format) ==
    LET kinds == {k \in DOMAIN CHANNEL_FORMATS : Includes(CHANNEL_FORMATS[k], format)}
    IN  IF t.pixelFormat = format \/ kinds = {} THEN t
        ELSE [t EXCEPT !.image = SetChannels(@, Channels(CHOOSE k \in kinds : TRUE)),
                       !.pixelFormat = format]

\* toJSON()
toJSON(t) ==
    [pixelFormat |-> t.pixelFormat, linear |-> t.linear, downscaling |-> t.downscaling,
     magFilter |-> FilterNameOf(t.magFilter), minFilter |-> FilterNameOf(t.minFilter),
     width |-> t.image.width, height |-> t.image.height]

\* fromJSON(data) for the data toJSON produces: a format string, two booleans, two
\* filter names, two numbers.  `if (data.linear)` and `if (data.downscaling)` let only
\* a truthy value replace the true just assigned; numbers and strings are truthy
\* unless 0 or empty
fromJSON(t, data) ==
    LET t1 == IF data.pixelFormat # Undefined /\ Includes(PIXEL_FORMATS, data.pixelFormat)
              THEN SetPixelFormat(t, data.pixelFormat) ELSE t
        linear == IF data.linear THEN data.linear ELSE TRUE
        downscaling == IF data.downscaling THEN data.downscaling ELSE TRUE
        magFilter == IF data.magFilter # "" THEN FilterValueOf(data.magFilter)
                     ELSE t1.magFilter
        minFilter == IF data.minFilter # "" THEN FilterValueOf(data.minFilter)
                     ELSE t1.minFilter
        image1 == IF data.width # 0 THEN ResizeTo(t1.image, data.width, t1.image.height)
                  ELSE t1.image
        image2 == IF data.height # 0 THEN ResizeTo(image1, image1.width, data.height)
                  ELSE image1
    IN  [t1 EXCEPT !.linear = linear, !.downscaling = downscaling,
                   !.magFilter = magFilter, !.minFilter = minFilter, !.image = image2]

\* JSON specification: new Texture().fromJSON(texture.toJSON()).
InitJSON ==
    /\ pc = "json"
    /\ texture \in TextureInputs
    /\ orig = texture
    /\ swf = NewSwf
    /\ loc = NoLoc
    /\ files = NoFiles
    /\ err = NoError
    /\ args = [op |-> "json"]

\* new Texture().fromJSON(texture.toJSON()); the JSON form is kept in args
JSONRoundTrip ==
    /\ pc = "json"
    /\ texture' = fromJSON(NewTexture, toJSON(texture))
    /\ args' = [op |-> "json", data |-> toJSON(texture)]
    /\ pc' = "json_done"
    /\ UNCHANGED <<swf, loc, files, err, orig>>

SpecJSON == InitJSON /\ [][JSONRoundTrip]_vars

\* C19: new Texture().fromJSON(T.toJSON()) has the linear, downscaling, magFilter and
\* minFilter of T, for every combination of the four.
C19_JSONRoundTrip ==
    pc = "json_done" =>
        /\ texture.linear = orig.linear
        /\ texture.downscaling = orig.downscaling
        /\ texture.magFilter = orig.magFilter
        /\ texture.minFilter = orig.minFilter

====
